---- MODULE Spec2Model ----
(***************************************************************************)
(* Model of the threads_poster pipeline: configuration loading, the        *)
(* platform client, the object-storage client, the caption generator and   *)
(* the orchestration in main().  External services are the environment:    *)
(* every call draws its outcome from a small set of responses/exceptions.  *)
(*                                                                         *)
(* Conventions.  Python None is NONE for plain strings and NoneText for    *)
(* message texts.  A message text (an f-string) is the tuple of its parts, *)
(* so the empty string is << >> and "the text mentions X" is computable.   *)
(***************************************************************************)
EXTENDS Integers, Sequences, FiniteSets, TLC

NONE == "<none>"

NoneText == <<NONE>>

\* Python truthiness of an Optional[str]
Truthy(s) == s # NONE /\ s # ""

\* Python truthiness of an Optional[str] holding a message text
TruthyText(t) == t # NoneText /\ t # << >>

\* `a or b` on message texts
OrText(a, b) == IF TruthyText(a) THEN a ELSE b

\* `a or b` on plain strings
OrStr(a, b) == IF Truthy(a) THEN a ELSE b

\* `value or None`
OrNone(v) == IF Truthy(v) THEN v ELSE NONE

Max2(a, b) == IF a >= b THEN a ELSE b

Range(s) == {s[i] : i \in 1..Len(s)}

(***************************************************************************)
(* Bounds                                                                  *)
(***************************************************************************)
\* largest number of objects the bucket holds
MaxObjects == 2

\* number of entries the backend returns per listing page
PageSize == 1

(***************************************************************************)
(* str.strip() and str.lower() on the strings the model uses               *)
(***************************************************************************)
StripTable ==
    ("TRUE " :> "TRUE") @@ (" " :> "") @@ (" off" :> "off") @@ (" yes " :> "yes")

Strip(s) == IF s \in DOMAIN StripTable THEN StripTable[s] ELSE s

LowerTable ==
    ("TRUE" :> "true") @@ ("B.PNG" :> "b.png") @@ ("No" :> "no") @@ ("On" :> "on")

Lower(s) == IF s \in DOMAIN LowerTable THEN LowerTable[s] ELSE s

\* s.endswith(".png"), on the object names of the model and their lower-casings
EndsWithDotPng(s) == s \in {"a.png", "b.png"}

\* int(s): the literals that parse, and their values
IntValue == ("0" :> 0) @@ ("30" :> 30) @@ ("900" :> 900) @@ ("120" :> 120)

IsIntLiteral(s) == s \in DOMAIN IntValue

(***************************************************************************)
(* config.py                                                               *)
(***************************************************************************)
\* os.environ.get(name, default)
EnvGet(e, name, default) == IF e[name] = NONE THEN default ELSE e[name]

\* result of a call: either a value or a raised exception with its text
Return(v) == [exc |-> NONE, msg |-> NoneText, value |-> v]

Raise(type, text) == [exc |-> type, msg |-> text, value |-> NONE]

\* mutant of GetBool: the value is compared as it is, neither stripped nor
\* lower-cased
C11_GetBool_asIs(e, name, default) ==
    LET value == e[name]
    IN  IF value = NONE THEN Return(default)
        ELSE IF value \in {"1", "true", "yes", "on"} THEN Return(TRUE)
        ELSE IF value \in {"0", "false", "no", "off"} THEN Return(FALSE)
        ELSE Raise("ValueError", <<"Invalid boolean value for ", name, ": ", value>>)

GetBool(e, name, default) ==
    LET value == e[name]
        norm  == Lower(Strip(value))
    IN  IF value = NONE THEN Return(default)
        ELSE IF norm \in {"1", "true", "yes", "on"} THEN Return(TRUE)
        ELSE IF norm \in {"0", "false", "no", "off"} THEN Return(FALSE)
        ELSE Raise("ValueError", <<"Invalid boolean value for ", name, ": ", norm>>)

\* mutant of GetEnv: only an unset variable is rejected, an empty one passes
C7_GetEnv_noneOnly(e, name) ==
    LET value == e[name]
    IN  IF value = NONE
        THEN Raise("RuntimeError", <<"Missing required environment variable: ", name>>)
        ELSE Return(value)

GetEnv(e, name) ==
    LET value == e[name]
    IN  IF value = NONE \/ value = ""
        THEN Raise("RuntimeError", <<"Missing required environment variable: ", name>>)
        ELSE Return(value)

\* int(os.environ.get(name, default))
GetInt(e, name, default) ==
    LET raw == EnvGet(e, name, default)
    IN  IF IsIntLiteral(raw) THEN Return(IntValue[raw])
        ELSE Raise("ValueError", <<"invalid literal for int() with base 10: ", raw>>)

CaptionFallbackDefault == "Sharing today's inspiration"

ClaudeModelDefault == "claude-sonnet-4-5-20250929"

Settings(tok, uid, bucket, wait, presign, key, maxtok, fallback, enable, e, ns) ==
    [threads_access_token       |-> tok,
     threads_user_id            |-> uid,
     bucket                     |-> bucket,
     object_prefix              |-> OrNone(e["THREADS_PREFIX"]),
     media_wait_seconds         |-> wait,
     presign_expiration_seconds |-> presign,
     anthropic_api_key          |-> key,
     claude_model               |-> EnvGet(e, "THREADS_CLAUDE_MODEL", ClaudeModelDefault),
     claude_max_tokens          |-> maxtok,
     caption_fallback           |-> fallback,
     enable_captioning          |-> enable,
     telegram_bot_token         |-> OrNone(e["TELEGRAM_BOT_TOKEN"]),
     telegram_chat_id           |-> OrNone(e["TELEGRAM_CHAT_ID"]),
     oci_namespace              |-> ns,
     oci_region                 |-> OrNone(e["OCI_REGION"]),
     oci_profile                |-> OrNone(e["OCI_PROFILE"])]

\* load_settings(): the statements in source order; the first one that raises
\* decides the exception.
LoadSettings(e) ==
    LET wait     == GetInt(e, "THREADS_MEDIA_WAIT_SECONDS", "30")
        presign  == GetInt(e, "THREADS_PRESIGN_EXPIRATION_SECONDS", "900")
        maxtok   == GetInt(e, "THREADS_CLAUDE_MAX_TOKENS", "120")
        fallback == EnvGet(e, "THREADS_CAPTION_FALLBACK", CaptionFallbackDefault)
        enable   == GetBool(e, "THREADS_ENABLE_CAPTIONING", TRUE)
        rawkey   == e["ANTHROPIC_API_KEY"]
        key      == IF Truthy(rawkey) THEN Strip(rawkey) ELSE ""
        bucket   == GetEnv(e, "THREADS_BUCKET")
        tok      == GetEnv(e, "THREADS_ACCESS_TOKEN")
        uid      == GetEnv(e, "THREADS_USER_ID")
        ns       == GetEnv(e, "OCI_NAMESPACE")
    IN  IF wait.exc # NONE THEN wait
        ELSE IF presign.exc # NONE THEN presign
        ELSE IF maxtok.exc # NONE THEN maxtok
        ELSE IF enable.exc # NONE THEN enable
        ELSE IF enable.value /\ ~Truthy(key)
            THEN Raise("RuntimeError",
                       <<"ANTHROPIC_API_KEY", " must be set when ",
                         "THREADS_ENABLE_CAPTIONING", " is true">>)
        ELSE IF bucket.exc # NONE THEN bucket
        ELSE IF tok.exc # NONE THEN tok
        ELSE IF uid.exc # NONE THEN uid
        ELSE IF ns.exc # NONE THEN ns
        ELSE Return(Settings(tok.value, uid.value, bucket.value, wait.value,
                             presign.value, key, maxtok.value, fallback,
                             enable.value, e, ns.value))

\* the environments the model starts from
Envs ==
    [THREADS_MEDIA_WAIT_SECONDS         : {NONE, "0", "abc"},
     THREADS_PRESIGN_EXPIRATION_SECONDS : {NONE, "abc"},
     THREADS_CLAUDE_MAX_TOKENS          : {NONE, "abc"},
     THREADS_CAPTION_FALLBACK           : {NONE},
     THREADS_ENABLE_CAPTIONING          : {NONE, "TRUE ", "0", "maybe"},
     ANTHROPIC_API_KEY                  : {NONE, "", " ", "sk-key"},
     THREADS_BUCKET                     : {NONE, "", "quotes"},
     THREADS_PREFIX                     : {NONE},
     THREADS_ACCESS_TOKEN               : {NONE, "", "token"},
     THREADS_USER_ID                    : {NONE, "", "42"},
     THREADS_CLAUDE_MODEL               : {NONE},
     TELEGRAM_BOT_TOKEN                 : {NONE, "", "bot"},
     TELEGRAM_CHAT_ID                   : {NONE, "chat"},
     OCI_NAMESPACE                      : {NONE, "", "ns"},
     OCI_REGION                         : {NONE},
     OCI_PROFILE                        : {NONE}]

\* the values of the captioning-enabled variable: the eight tokens, spellings
\* of them with surrounding white space or capitals, and other strings
BoolValues ==
    {NONE, "1", "true", "yes", "on", "0", "false", "no", "off",
     "TRUE ", " yes ", "On", " off", "No", "", " ", "maybe", "2", "y"}

\* environments that vary the captioning-enabled variable
BoolEnvs ==
    [THREADS_MEDIA_WAIT_SECONDS         : {NONE, "abc"},
     THREADS_PRESIGN_EXPIRATION_SECONDS : {NONE},
     THREADS_CLAUDE_MAX_TOKENS          : {NONE},
     THREADS_CAPTION_FALLBACK           : {NONE},
     THREADS_ENABLE_CAPTIONING          : BoolValues,
     ANTHROPIC_API_KEY                  : {NONE, "sk-key"},
     THREADS_BUCKET                     : {NONE, "quotes"},
     THREADS_PREFIX                     : {NONE},
     THREADS_ACCESS_TOKEN               : {"token"},
     THREADS_USER_ID                    : {"42"},
     THREADS_CLAUDE_MODEL               : {NONE},
     TELEGRAM_BOT_TOKEN                 : {NONE, "bot"},
     TELEGRAM_CHAT_ID                   : {"chat"},
     OCI_NAMESPACE                      : {"ns"},
     OCI_REGION                         : {NONE},
     OCI_PROFILE                        : {NONE}]

(***************************************************************************)
(* threads_api.py                                                          *)
(***************************************************************************)
\* What a request to the platform can come back with: the transport raises
\* (requests.RequestException), or there is a response with a status code and
\* a body that is not JSON, JSON but not an object, or a JSON object.
Response(code, kind, id, username, display, cstatus, errmsg) ==
    [raised |-> FALSE, status_code |-> code, kind |-> kind, id |-> id,
     username |-> username, display_name |-> display, status |-> cstatus,
     error_message |-> errmsg]

ConnectionFailure ==
    [raised |-> TRUE, status_code |-> 0, kind |-> "none", id |-> NONE,
     username |-> NONE, display_name |-> NONE, status |-> NONE,
     error_message |-> NONE]

StatusCodes == {200, 400}

StatusText(code) == IF code = 200 THEN "200" ELSE "400"

Responses ==
    {ConnectionFailure} \cup
    UNION {{Response(c, "notjson", NONE, NONE, NONE, NONE, NONE),
            Response(c, "list", NONE, NONE, NONE, NONE, NONE),
            Response(c, "object", NONE, NONE, NONE, NONE, NONE),
            Response(c, "object", "", NONE, NONE, NONE, NONE),
            Response(c, "object", "123", NONE, NONE, NONE, NONE),
            Response(c, "object", "999", NONE, NONE, NONE, NONE),
            Response(c, "object", "42", "alice", NONE, NONE, NONE),
            Response(c, "object", "42", "alice", "Alice", NONE, NONE),
            Response(c, "object", "123", NONE, NONE, "FINISHED", NONE),
            Response(c, "object", NONE, NONE, NONE, NONE, "bad token")}
           : c \in StatusCodes}

\* response.text, the fallback of the error message
ResponseText == "<response text>"

HandleResponse(r) ==
    IF r.kind = "notjson"
    THEN Raise("ThreadsApiError", <<"Failed to parse Threads API response as JSON">>)
    ELSE IF r.status_code >= 400
    THEN IF r.kind # "object"
         THEN Raise("AttributeError", <<"'list' object has no attribute 'get'">>)
         ELSE Raise("ThreadsApiError",
                    <<"Threads API error (", StatusText(r.status_code), "): ",
                      IF r.error_message # NONE THEN r.error_message
                                                ELSE ResponseText>>)
    ELSE Return(r)

\* requests.post / requests.get, then _handle_response
Request(r) ==
    IF r.raised THEN Raise("RequestException", <<"connection failed">>)
    ELSE HandleResponse(r)

\* data.get("id") followed by `if not value: raise`
RequireId(r, what) ==
    LET data == Request(r)
    IN  IF data.exc # NONE THEN data
        ELSE IF data.value.kind # "object"
        THEN Raise("AttributeError", <<"'list' object has no attribute 'get'">>)
        ELSE IF ~Truthy(data.value.id)
        THEN Raise("ThreadsApiError",
                   <<"Threads API response did not include a ", what>>)
        ELSE Return(data.value.id)

CreateMediaContainer(r) == RequireId(r, "container ID")

PublishContainer(r) == RequireId(r, "thread ID")

CheckContainerStatus(r) ==
    LET data == Request(r)
    IN  IF data.exc # NONE THEN data
        ELSE IF data.value.kind # "object"
        THEN Raise("AttributeError", <<"'list' object has no attribute 'get'">>)
        ELSE Return(data.value.status)

\* returns the parsed body as it is, dict or not
GetProfileDetails(r) == Request(r)

(***************************************************************************)
(* oci_storage.py                                                          *)
(***************************************************************************)
ObjectRef(bucket, key) == [bucket |-> bucket, key |-> key]

NoObject == ObjectRef(NONE, NONE)

PreauthenticatedRequest(bucket, id, url) == [bucket |-> bucket, id |-> id, url |-> url]

NoRequest == PreauthenticatedRequest(NONE, NONE, NoneText)

\* the object names the backend knows, in the order it lists them
NameOrder == <<"B.PNG", "a.png", "c.jpg">>

Names == Range(NameOrder)

\* what the bucket can hold when it is first listed
BucketContents == {b \in SUBSET Names : Cardinality(b) <= MaxObjects}

\* the backend's listing of a bucket
Listing(b) == SelectSeq(NameOrder, LAMBDA n : n \in b)

Region == "us-ashburn-1"

StorageInitOutcomes == {"ok", "config_load_failed", "missing_region"}

\* OCIStorageClient.__init__
InitStorageClient(out) ==
    IF out = "config_load_failed"
    THEN Raise("OCIStorageError", <<"Failed to load OCI configuration: ", "no config file">>)
    ELSE IF out = "missing_region"
    THEN Raise("OCIStorageError", <<"OCI configuration is missing a region value">>)
    ELSE Return(Region)

\* A backend call raises ServiceError (with its message) or any other
\* exception, whose str() may be empty; both are wrapped in OCIStorageError.
BackendOutcomes == {"ok", "service_error", "exception"}

BackendError(out) ==
    IF out = "service_error"
    THEN Raise("OCIStorageError", <<"The service returned an error">>)
    ELSE Raise("OCIStorageError", << >>)

\* the objects of one page that pass the .png filter
PngOfPage(bucket, page) ==
    LET keep == SelectSeq(page, LAMBDA n : EndsWithDotPng(Lower(n)))
    IN  [i \in 1..Len(keep) |-> ObjectRef(bucket, keep[i])]

RECURSIVE ListPages(_, _, _, _)
\* the while loop of list_png_objects: one page per round, until the backend
\* returns no cursor
ListPages(bucket, listing, start, objects) ==
    LET last       == IF start + PageSize - 1 <= Len(listing)
                      THEN start + PageSize - 1 ELSE Len(listing)
        page       == SubSeq(listing, start, last)
        next_start == IF last < Len(listing) THEN last + 1 ELSE 0
        acc        == objects \o PngOfPage(bucket, page)
    IN  IF next_start = 0 THEN acc
        ELSE ListPages(bucket, listing, next_start, acc)

ListPngObjects(bucket, listing, out) ==
    IF out # "ok" THEN BackendError(out)
    ELSE Return(ListPages(bucket, listing, 1, << >>))

NoPngText == <<"No PNG files found in the specified OCI bucket">>

\* mutant of ChooseRandomObject: no emptiness check, and an index drawn from
\* 0..len(objects) instead of 0..len(objects)-1
C9_ChooseRandomObject_offByOne(objects) ==
    {Return(objects[i]) : i \in 1..Len(objects)}
    \cup {Raise("IndexError", <<"list index out of range">>)}

\* choose_random_object: every outcome random.choice can produce
ChooseRandomObject(objects) ==
    IF objects = << >>
    THEN {Raise("OCIStorageError", NoPngText)}
    ELSE {Return(objects[i]) : i \in 1..Len(objects)}

LinkOutcomes == {"ok", "service_error", "exception", "no_access_uri"}

ParId == "par-1"

GeneratePresignedUrl(region, obj, out) ==
    IF out \in {"service_error", "exception"} THEN BackendError(out)
    ELSE IF out = "no_access_uri"
    THEN Raise("OCIStorageError",
               <<"Failed to create pre-authenticated request for ",
                 "oci://", obj.bucket, "/", obj.key>>)
    ELSE Return(PreauthenticatedRequest(obj.bucket, ParId,
                    <<"https://objectstorage.", region, ".oraclecloud.com",
                      "/p/", obj.key>>))

\* delete_object and revoke_preauthenticated_request
BackendCall(out) == IF out # "ok" THEN BackendError(out) ELSE Return(NONE)

(***************************************************************************)
(* claude_caption.py                                                       *)
(***************************************************************************)
DownloadOutcomes == {"ok", "http_error", "network"}

TextBlock(t) == [type |-> "text", text |-> t]

ToolBlock == [type |-> "tool_use", text |-> NONE]

ApiErrorBlock == [type |-> "api_error", text |-> NONE]

\* the model call raises APIError, or returns a list of content blocks
ModelOutcomes ==
    {<<ApiErrorBlock>>,
     <<ToolBlock, TextBlock(" ")>>,
     <<TextBlock("Nice view"), ToolBlock, TextBlock("today")>>}

DownloadImageBytes(dl) ==
    IF dl = "network"
    THEN Raise("ClaudeCaptionError", <<"Failed to download image for captioning: ", "timeout">>)
    ELSE IF dl = "http_error"
    THEN Raise("ClaudeCaptionError", <<"Image download failed with status ", "404", ": ", "Not Found">>)
    ELSE Return("bytes")

RECURSIVE JoinSpace(_)
\* " ".join(parts), as the tuple of its pieces
JoinSpace(parts) ==
    IF Len(parts) = 0 THEN << >>
    ELSE IF Len(parts) = 1 THEN <<parts[1]>>
    ELSE <<parts[1], " ">> \o JoinSpace(Tail(parts))

GenerateCaption(config, dl, model) ==
    LET image == DownloadImageBytes(dl)
        kept  == SelectSeq(model, LAMBDA b : b.type = "text" /\ Strip(b.text) # "")
        caption_parts == [i \in 1..Len(kept) |-> Strip(kept[i].text)]
        caption == JoinSpace(caption_parts)
    IN  IF image.exc # NONE THEN image
        ELSE IF model = <<ApiErrorBlock>>
        THEN Raise("ClaudeCaptionError", <<"Claude API call failed">>)
        ELSE IF caption = << >> THEN Return(<<config.caption_fallback>>)
        ELSE Return(caption)

(***************************************************************************)
(* main.py: helpers                                                        *)
(***************************************************************************)
\* profile_details = None
NoDetails ==
    [raised |-> FALSE, status_code |-> 0, kind |-> "none", id |-> NONE,
     username |-> NONE, display_name |-> NONE, status |-> NONE,
     error_message |-> NONE]

\* `details` is falsy: None or an empty dict
EmptyDetails(details) ==
    \/ details.kind = "none"
    \/ /\ details.kind = "object"
       /\ details.id = NONE /\ details.username = NONE
       /\ details.display_name = NONE /\ details.status = NONE
       /\ details.error_message = NONE

FormatThreadsLabel(details, user_id) ==
    LET display_name == IF EmptyDetails(details) THEN NONE ELSE details.display_name
        username     == IF EmptyDetails(details) THEN NONE ELSE details.username
        has_handle   == Truthy(username)
    IN  IF ~EmptyDetails(details) /\ details.kind # "object"
        THEN Raise("AttributeError", <<"'list' object has no attribute 'get'">>)
        ELSE IF Truthy(display_name) /\ has_handle
        THEN Return(<<display_name, " (", "@", username, ")">>)
        ELSE IF Truthy(display_name) THEN Return(<<display_name>>)
        ELSE IF has_handle THEN Return(<<"@", username>>)
        ELSE Return(<<user_id>>)

SuccessHeading == "(check mark) Threads post published"

FailureHeading == "(cross mark) Threads poster failed"

SendOutcomes == {"ok", "request_exception"}

\* _send_telegram_message: `sent` is the list of requests made to the chat
\* webhook so far; a failed request is logged (SendLog)
SendTelegramMessage(bot_token, chat_id, message, out, sent) ==
    IF ~Truthy(bot_token) \/ ~Truthy(chat_id) THEN sent
    ELSE Append(sent, [chat_id |-> chat_id, text |-> message,
                       delivered |-> (out = "ok")])

LogEntry(level, event, text) == [level |-> level, event |-> event, text |-> text]

\* the warning _send_telegram_message logs when the request fails
SendLog(bot_token, chat_id, out, entries) ==
    IF Truthy(bot_token) /\ Truthy(chat_id) /\ out # "ok"
    THEN Append(entries, LogEntry("warning", "Failed to send Telegram notification",
                                  <<"request failed">>))
    ELSE entries

Call(op, arg, url, text) == [op |-> op, arg |-> arg, url |-> url, text |-> text]

NoResult == -1

\* mutant of SummaryLines: the post id line is left out
C8_SummaryLines_noThreadId(result_code, label, object, tid, final_error) ==
    <<<<IF result_code = 0 THEN SuccessHeading ELSE FailureHeading>>,
      <<"Threads Account: ">> \o label>>
    \o (IF object # NoObject THEN <<<<"Object Key: ", object.key>>>> ELSE << >>)
    \o (IF TruthyText(final_error) THEN <<<<"Error: ">> \o final_error>> ELSE << >>)

\* the lines finish() joins into the summary
SummaryLines(result_code, label, object, tid, final_error) ==
    <<<<IF result_code = 0 THEN SuccessHeading ELSE FailureHeading>>,
      <<"Threads Account: ">> \o label>>
    \o (IF object # NoObject THEN <<<<"Object Key: ", object.key>>>> ELSE << >>)
    \o (IF Truthy(tid) THEN <<<<"Thread ID: ", tid>>>> ELSE << >>)
    \o (IF TruthyText(final_error) THEN <<<<"Error: ">> \o final_error>> ELSE << >>)

(***************************************************************************)
(* State                                                                   *)
(***************************************************************************)
VARIABLES
    env,                \* os.environ
    pc,                 \* position of main()
    telegram_bot_token, telegram_chat_id,
    settings, account_label, storage, objects, selected_object, par_request,
    caption, container_id, thread_id, last_error,
    finish_code, finish_error,   \* the arguments of the pending finish() call
    result,             \* what main() returned, NoResult before it returns
    raised,             \* the exception that escaped main(), NONE if none did
    slept,              \* seconds main() slept waiting for media processing
    log,                \* warnings and errors logged, in order
    calls,              \* requests made to the platform, the store and the model
    notifications,      \* requests made to the chat webhook
    bucket,             \* the object names in the bucket
    pars,               \* the preauthenticated requests the backend has created,
                        \* each with a flag telling whether it was deleted since
    create_response,    \* the response create_media_container received
    publish_response,   \* the response publish_container received
    finish_calls        \* number of finish() calls

vars ==
    <<env, pc, telegram_bot_token, telegram_chat_id, settings, account_label,
      storage, objects, selected_object, par_request, caption, container_id,
      thread_id, last_error, finish_code, finish_error, result, raised, slept,
      log, calls, notifications, bucket, pars, create_response,
      publish_response, finish_calls>>

NoSettings == [loaded |-> FALSE]

\* `objects` before the listing has assigned it
NotListed == <<NoObject>>

NoResponse == NoDetails

\* the environments of the full runs: a complete environment with captioning
\* and the notification switched on or off, and one without a bucket name
RunEnvs ==
    {e \in Envs :
        /\ e["THREADS_MEDIA_WAIT_SECONDS"] = NONE
        /\ e["THREADS_PRESIGN_EXPIRATION_SECONDS"] = NONE
        /\ e["THREADS_CLAUDE_MAX_TOKENS"] = NONE
        /\ e["THREADS_ENABLE_CAPTIONING"] \in {NONE, "0"}
        /\ e["ANTHROPIC_API_KEY"] = "sk-key"
        /\ e["THREADS_BUCKET"] \in {"quotes", ""}
        /\ e["THREADS_ACCESS_TOKEN"] = "token"
        /\ e["THREADS_USER_ID"] = "42"
        /\ e["TELEGRAM_BOT_TOKEN"] \in {NONE, "bot"}
        /\ e["TELEGRAM_CHAT_ID"] = "chat"
        /\ e["OCI_NAMESPACE"] = "ns"}

InitLocals(e) ==
    /\ env = e
    /\ pc = "load_settings"
    /\ telegram_bot_token = e["TELEGRAM_BOT_TOKEN"]
    /\ telegram_chat_id = e["TELEGRAM_CHAT_ID"]
    /\ settings = NoSettings
    /\ account_label = NoneText
    /\ storage = NONE
    /\ objects = NotListed
    /\ selected_object = NoObject
    /\ par_request = NoRequest
    /\ caption = NoneText
    /\ container_id = NONE
    /\ thread_id = NONE
    /\ last_error = NoneText
    /\ finish_code = NoResult
    /\ finish_error = NoneText
    /\ result = NoResult
    /\ raised = NONE
    /\ slept = 0
    /\ log = << >>
    /\ calls = << >>
    /\ notifications = << >>
    /\ pars = {}
    /\ create_response = NoResponse
    /\ publish_response = NoResponse
    /\ finish_calls = 0

Init ==
    /\ \E e \in RunEnvs : InitLocals(e)
    /\ bucket \in BucketContents

\* main() has returned or an exception has escaped it
Terminated == pc = "returned" \/ raised # NONE

Running(at) == pc = at /\ raised = NONE

(***************************************************************************)
(* main.py: main(), one action per step                                    *)
(***************************************************************************)
\* lines 72-93
LoadSettingsStep ==
    /\ Running("load_settings")
    /\ \E send \in SendOutcomes :
        LET r == LoadSettings(env)
        IN  IF r.exc # NONE
            THEN /\ notifications' =
                        SendTelegramMessage(telegram_bot_token, telegram_chat_id,
                            <<<<FailureHeading>>, <<"Error: ">> \o r.msg>>,
                            send, notifications)
                 /\ log' = SendLog(telegram_bot_token, telegram_chat_id, send,
                                   Append(log, LogEntry("error", "Configuration error", r.msg)))
                 /\ result' = 1
                 /\ pc' = "returned"
                 /\ UNCHANGED <<settings, telegram_bot_token, telegram_chat_id>>
            ELSE /\ settings' = r.value
                 /\ telegram_bot_token' = OrStr(r.value.telegram_bot_token, telegram_bot_token)
                 /\ telegram_chat_id' = OrStr(r.value.telegram_chat_id, telegram_chat_id)
                 /\ pc' = "get_profile"
                 /\ UNCHANGED <<notifications, log, result>>
    /\ UNCHANGED <<env, account_label, storage, objects, selected_object,
                   par_request, caption, container_id, thread_id, last_error,
                   finish_code, finish_error, raised, slept, calls, bucket,
                   pars, create_response, publish_response, finish_calls>>

\* lines 95-104
FetchProfile ==
    /\ Running("get_profile")
    /\ \E r \in Responses :
        LET res   == GetProfileDetails(r)
            label == FormatThreadsLabel(IF res.exc = NONE THEN res.value ELSE NoDetails,
                                        settings.threads_user_id)
        IN  /\ calls' = Append(calls, Call("get_profile_details",
                                           settings.threads_user_id, NoneText, NoneText))
            /\ IF res.exc = "ThreadsApiError"
               THEN /\ log' = Append(log, LogEntry("warning",
                                "Failed to fetch Threads profile details", res.msg))
                    /\ account_label' = label.value
                    /\ pc' = "init_storage"
                    /\ UNCHANGED raised
               ELSE IF res.exc # NONE
               THEN /\ raised' = res.exc
                    /\ UNCHANGED <<log, account_label, pc>>
               ELSE IF label.exc # NONE
               THEN /\ raised' = label.exc
                    /\ UNCHANGED <<log, account_label, pc>>
               ELSE /\ account_label' = label.value
                    /\ pc' = "init_storage"
                    /\ UNCHANGED <<log, raised>>
    /\ UNCHANGED <<env, telegram_bot_token, telegram_chat_id, settings, storage,
                   objects, selected_object, par_request, caption, container_id,
                   thread_id, last_error, finish_code, finish_error, result,
                   slept, notifications, bucket, pars, create_response,
                   publish_response, finish_calls>>

\* mutant of FailTo: the except branch reports success
C4_FailTo_code0(event, text) ==
    /\ last_error' = text
    /\ log' = Append(log, LogEntry("error", event, text))
    /\ finish_code' = 0
    /\ finish_error' = text
    /\ pc' = "finish"

\* an except branch of main() that ends in `return finish(1, error=str(exc))`
FailTo(event, text) ==
    /\ last_error' = text
    /\ log' = Append(log, LogEntry("error", event, text))
    /\ finish_code' = 1
    /\ finish_error' = text
    /\ pc' = "finish"

\* lines 149-158
InitStorage ==
    /\ Running("init_storage")
    /\ \E out \in StorageInitOutcomes :
        LET res == InitStorageClient(out)
        IN  IF res.exc # NONE
            THEN /\ FailTo("Failed to initialize OCI storage client", res.msg)
                 /\ UNCHANGED storage
            ELSE /\ storage' = res.value
                 /\ pc' = "list_png"
                 /\ UNCHANGED <<last_error, log, finish_code, finish_error>>
    /\ UNCHANGED <<env, telegram_bot_token, telegram_chat_id, settings,
                   account_label, objects, selected_object, par_request, caption,
                   container_id, thread_id, result, raised, slept, calls,
                   notifications, bucket, pars, create_response,
                   publish_response, finish_calls>>

\* line 163, and lines 174-177 when it raises
ListObjects ==
    /\ Running("list_png")
    /\ \E out \in BackendOutcomes :
        LET res == ListPngObjects(settings.bucket, Listing(bucket), out)
        IN  IF res.exc # NONE
            THEN /\ FailTo("OCI operation failed", res.msg)
                 /\ UNCHANGED objects
            ELSE /\ objects' = res.value
                 /\ pc' = "choose"
                 /\ UNCHANGED <<last_error, log, finish_code, finish_error>>
    /\ calls' = Append(calls, Call("list_objects", settings.bucket, NoneText, NoneText))
    /\ UNCHANGED <<env, telegram_bot_token, telegram_chat_id, settings,
                   account_label, storage, selected_object, par_request, caption,
                   container_id, thread_id, result, raised, slept,
                   notifications, bucket, pars, create_response,
                   publish_response, finish_calls>>

\* lines 164-165, and lines 174-177 when it raises
ChooseObject ==
    /\ Running("choose")
    /\ \E res \in ChooseRandomObject(objects) :
        IF res.exc # NONE
        THEN /\ FailTo("OCI operation failed", res.msg)
             /\ UNCHANGED selected_object
        ELSE /\ selected_object' = res.value
             /\ pc' = "presign"
             /\ UNCHANGED <<last_error, log, finish_code, finish_error>>
    /\ UNCHANGED <<env, telegram_bot_token, telegram_chat_id, settings,
                   account_label, storage, objects, par_request, caption,
                   container_id, thread_id, result, raised, slept, calls,
                   notifications, bucket, pars, create_response,
                   publish_response, finish_calls>>

\* lines 166-173, and lines 174-177 when it raises
GenerateLink ==
    /\ Running("presign")
    /\ \E out \in LinkOutcomes :
        LET res == GeneratePresignedUrl(storage, selected_object, out)
        IN  IF res.exc # NONE
            THEN /\ FailTo("OCI operation failed", res.msg)
                 /\ UNCHANGED <<par_request, pars>>
            ELSE /\ par_request' = res.value
                 /\ pars' = pars \cup
                        {[id |-> res.value.id, object |-> selected_object.key,
                          expires_in |-> Max2(settings.presign_expiration_seconds, 1),
                          revoked |-> FALSE]}
                 /\ pc' = "caption"
                 /\ UNCHANGED <<last_error, log, finish_code, finish_error>>
    /\ calls' = Append(calls, Call("create_preauthenticated_request",
                                   selected_object.key, NoneText, NoneText))
    /\ UNCHANGED <<env, telegram_bot_token, telegram_chat_id, settings,
                   account_label, storage, objects, selected_object, caption,
                   container_id, thread_id, result, raised, slept,
                   notifications, bucket, create_response, publish_response,
                   finish_calls>>

\* the requests generate_caption makes: the download, then the model call
CaptionCalls(url, dl) ==
    <<Call("download_image", NONE, url, NoneText)>>
    \o (IF dl = "ok" THEN <<Call("messages.create", NONE, NoneText, NoneText)>>
        ELSE << >>)

\* mutant of CaptionOnError: post the fallback text when generation fails
C5_CaptionOnError_fallback == <<CaptionFallbackDefault>>

\* line 185: the caption main() posts when generate_caption raised
CaptionOnError == << >>

\* lines 179-189
Caption ==
    /\ Running("caption")
    /\ IF settings.enable_captioning
       THEN \E dl \in DownloadOutcomes, model \in ModelOutcomes :
               LET res == GenerateCaption(settings, dl, model)
               IN  /\ calls' = calls \o CaptionCalls(par_request.url, dl)
                   /\ IF res.exc # NONE
                      THEN /\ log' = Append(log, LogEntry("error",
                                        "Failed to generate caption via Claude", res.msg))
                           /\ caption' = CaptionOnError
                      ELSE /\ caption' = res.value
                           /\ UNCHANGED log
       ELSE /\ caption' = << >>
            /\ UNCHANGED <<calls, log>>
    /\ pc' = "create"
    /\ UNCHANGED <<env, telegram_bot_token, telegram_chat_id, settings,
                   account_label, storage, objects, selected_object, par_request,
                   container_id, thread_id, last_error, finish_code,
                   finish_error, result, raised, slept, notifications, bucket,
                   pars, create_response, publish_response, finish_calls>>

\* lines 191-204
CreateContainer ==
    /\ Running("create")
    /\ \E r \in Responses :
        LET res == CreateMediaContainer(r)
            caption_payload == OrText(caption, << >>)
        IN  /\ calls' = Append(calls, Call("create_media_container",
                                settings.threads_user_id, par_request.url,
                                caption_payload))
            /\ create_response' = r
            /\ IF res.exc = "ThreadsApiError"
               THEN /\ FailTo("Failed to create media container", res.msg)
                    /\ UNCHANGED <<container_id, raised>>
               ELSE IF res.exc # NONE
               THEN /\ raised' = res.exc
                    /\ UNCHANGED <<container_id, pc, last_error, log,
                                   finish_code, finish_error>>
               ELSE /\ container_id' = res.value
                    /\ pc' = "status"
                    /\ UNCHANGED <<raised, last_error, log, finish_code,
                                   finish_error>>
    /\ UNCHANGED <<env, telegram_bot_token, telegram_chat_id, settings,
                   account_label, storage, objects, selected_object, par_request,
                   caption, thread_id, result, slept, notifications, bucket,
                   pars, publish_response, finish_calls>>

\* mutant of CheckStatus: a status check that fails with an API error ends the
\* run through finish(1)
C13_CheckStatus_gated ==
    /\ Running("status")
    /\ slept' = Max2(settings.media_wait_seconds, 0)
    /\ \E r \in Responses :
        LET res == CheckContainerStatus(r)
        IN  IF res.exc = "ThreadsApiError"
            THEN /\ FailTo("Could not confirm container status", res.msg)
                 /\ UNCHANGED raised
            ELSE IF res.exc # NONE
            THEN /\ raised' = res.exc
                 /\ UNCHANGED <<log, pc, last_error, finish_code, finish_error>>
            ELSE /\ pc' = "publish"
                 /\ UNCHANGED <<log, raised, last_error, finish_code, finish_error>>
    /\ calls' = Append(calls, Call("check_container_status", container_id,
                                   NoneText, NoneText))
    /\ UNCHANGED <<env, telegram_bot_token, telegram_chat_id, settings,
                   account_label, storage, objects, selected_object, par_request,
                   caption, container_id, thread_id, result, notifications,
                   bucket, pars, create_response, publish_response, finish_calls>>

\* lines 206-218
CheckStatus ==
    /\ Running("status")
    /\ slept' = Max2(settings.media_wait_seconds, 0)
    /\ \E r \in Responses :
        LET res == CheckContainerStatus(r)
        IN  IF res.exc = "ThreadsApiError"
            THEN /\ log' = Append(log, LogEntry("warning",
                                "Could not confirm container status", res.msg))
                 /\ pc' = "publish"
                 /\ UNCHANGED raised
            ELSE IF res.exc # NONE
            THEN /\ raised' = res.exc
                 /\ UNCHANGED <<log, pc>>
            ELSE /\ pc' = "publish"
                 /\ UNCHANGED <<log, raised>>
    /\ calls' = Append(calls, Call("check_container_status", container_id,
                                   NoneText, NoneText))
    /\ UNCHANGED <<env, telegram_bot_token, telegram_chat_id, settings,
                   account_label, storage, objects, selected_object, par_request,
                   caption, container_id, thread_id, last_error, finish_code,
                   finish_error, result, notifications, bucket, pars,
                   create_response, publish_response, finish_calls>>

\* mutant of Publish: a publishing error is logged and the run carries on to
\* the deletion
C12_Publish_deleteAnyway ==
    /\ Running("publish")
    /\ \E r \in Responses :
        LET res == PublishContainer(r)
        IN  /\ publish_response' = r
            /\ IF res.exc = "ThreadsApiError"
               THEN /\ last_error' = res.msg
                    /\ log' = Append(log, LogEntry("error",
                                    "Failed to publish container", res.msg))
                    /\ pc' = "delete"
                    /\ UNCHANGED <<thread_id, raised, finish_code, finish_error>>
               ELSE IF res.exc # NONE
               THEN /\ raised' = res.exc
                    /\ UNCHANGED <<thread_id, pc, last_error, log, finish_code,
                                   finish_error>>
               ELSE /\ thread_id' = res.value
                    /\ pc' = "delete"
                    /\ UNCHANGED <<raised, last_error, log, finish_code,
                                   finish_error>>
    /\ calls' = Append(calls, Call("publish_container", container_id,
                                   NoneText, NoneText))
    /\ UNCHANGED <<env, telegram_bot_token, telegram_chat_id, settings,
                   account_label, storage, objects, selected_object, par_request,
                   caption, container_id, result, slept, notifications, bucket,
                   pars, create_response, finish_calls>>

\* lines 220-230
Publish ==
    /\ Running("publish")
    /\ \E r \in Responses :
        LET res == PublishContainer(r)
        IN  /\ publish_response' = r
            /\ IF res.exc = "ThreadsApiError"
               THEN /\ FailTo("Failed to publish container", res.msg)
                    /\ UNCHANGED <<thread_id, raised>>
               ELSE IF res.exc # NONE
               THEN /\ raised' = res.exc
                    /\ UNCHANGED <<thread_id, pc, last_error, log, finish_code,
                                   finish_error>>
               ELSE /\ thread_id' = res.value
                    /\ pc' = "delete"
                    /\ UNCHANGED <<raised, last_error, log, finish_code,
                                   finish_error>>
    /\ calls' = Append(calls, Call("publish_container", container_id,
                                   NoneText, NoneText))
    /\ UNCHANGED <<env, telegram_bot_token, telegram_chat_id, settings,
                   account_label, storage, objects, selected_object, par_request,
                   caption, container_id, result, slept, notifications, bucket,
                   pars, create_response, finish_calls>>

BestEffortOutcomes == {"ok", "service_error"}

\* lines 232-246
DeleteObject ==
    /\ Running("delete")
    /\ \E out \in BestEffortOutcomes :
        LET res == BackendCall(out)
        IN  IF res.exc # NONE
            THEN /\ log' = Append(log, LogEntry("warning",
                                "Thread posted but failed to delete", res.msg))
                 /\ UNCHANGED bucket
            ELSE /\ bucket' = bucket \ {selected_object.key}
                 /\ UNCHANGED log
    /\ calls' = Append(calls, Call("delete_object", selected_object.key,
                                   NoneText, NoneText))
    /\ finish_code' = 0
    /\ finish_error' = NoneText
    /\ pc' = "finish"
    /\ UNCHANGED <<env, telegram_bot_token, telegram_chat_id, settings,
                   account_label, storage, objects, selected_object, par_request,
                   caption, container_id, thread_id, last_error, result, raised,
                   slept, notifications, pars, create_response,
                   publish_response, finish_calls>>

\* lines 114-147: finish(result_code, error=...)
Finish ==
    /\ Running("finish")
    /\ \E rv \in BestEffortOutcomes, send \in SendOutcomes :
        LET revoking    == par_request # NoRequest /\ storage # NONE
            res         == BackendCall(rv)
            log1        == IF revoking /\ res.exc # NONE
                           THEN Append(log, LogEntry("warning",
                                    "Failed to revoke pre-authenticated request", res.msg))
                           ELSE log
            final_error == OrText(finish_error, last_error)
            message     == SummaryLines(finish_code, account_label,
                                        selected_object, thread_id, final_error)
        IN  /\ IF revoking
               THEN /\ calls' = Append(calls, Call("revoke_preauthenticated_request",
                                                   par_request.id, NoneText, NoneText))
                    /\ pars' = IF res.exc = NONE
                               THEN {IF p.id = par_request.id
                                     THEN [p EXCEPT !.revoked = TRUE] ELSE p
                                     : p \in pars}
                               ELSE pars
                    /\ par_request' = NoRequest
               ELSE UNCHANGED <<calls, pars, par_request>>
            /\ notifications' = SendTelegramMessage(telegram_bot_token,
                                    telegram_chat_id, message, send, notifications)
            /\ log' = SendLog(telegram_bot_token, telegram_chat_id, send, log1)
    /\ finish_calls' = finish_calls + 1
    /\ result' = finish_code
    /\ pc' = "returned"
    /\ UNCHANGED <<env, telegram_bot_token, telegram_chat_id, settings,
                   account_label, storage, objects, selected_object, caption,
                   container_id, thread_id, last_error, finish_code,
                   finish_error, raised, slept, bucket, create_response,
                   publish_response>>

Next ==
    \/ LoadSettingsStep
    \/ FetchProfile
    \/ InitStorage
    \/ ListObjects
    \/ ChooseObject
    \/ GenerateLink
    \/ Caption
    \/ CreateContainer
    \/ CheckStatus
    \/ Publish
    \/ DeleteObject
    \/ Finish

Spec == Init /\ [][Next]_vars

\* Configuration loading over every environment of Envs
InitConfig ==
    /\ \E e \in Envs : InitLocals(e)
    /\ bucket = {}

NextConfig == LoadSettingsStep

SpecConfig == InitConfig /\ [][NextConfig]_vars

\* load_settings() over the values of the captioning-enabled variable
InitBool ==
    /\ \E e \in BoolEnvs : InitLocals(e)
    /\ bucket = {}

NextBool == LoadSettingsStep

SpecBool == InitBool /\ [][NextBool]_vars

(***************************************************************************)
(* Vocabulary of the properties                                            *)
(***************************************************************************)
CallsWith(op) == {i \in 1..Len(calls) : calls[i].op = op}

HasLog(event) == \E i \in 1..Len(log) : log[i].event = event

Mentions(text, name) == name \in Range(text)

HasLine(message, prefix) == \E i \in 1..Len(message) : message[i][1] = prefix

\* the error events of the gated steps
GatedEvents ==
    {"Failed to initialize OCI storage client", "OCI operation failed",
     "Failed to create media container", "Failed to publish container"}

PlatformOps ==
    {"get_profile_details", "create_media_container",
     "check_container_status", "publish_container"}

PostingOps == PlatformOps \ {"get_profile_details"}

\* a gated step failed: its except branch ran, or its exception escaped main()
GatedStepFailed ==
    \/ \E i \in 1..Len(log) : log[i].level = "error" /\ log[i].event \in GatedEvents
    \/ raised # NONE /\ pc \in {"create", "publish"}

\* a gated step failed and its error text is not the empty string
GatedStepFailedWithText ==
    \E i \in 1..Len(log) : /\ log[i].level = "error"
                           /\ log[i].event \in GatedEvents
                           /\ log[i].text # << >>

NotificationConfigured == Truthy(telegram_bot_token) /\ Truthy(telegram_chat_id)

RevokeCalls(id) ==
    {i \in CallsWith("revoke_preauthenticated_request") : calls[i].arg = id}

\* every gated step ran and succeeded
AllGatedSucceeded ==
    /\ settings # NoSettings
    /\ storage # NONE
    /\ selected_object # NoObject
    /\ pars # {}
    /\ container_id # NONE
    /\ thread_id # NONE

\* the listing returned and held no PNG object
ZeroListed == objects = << >>

\* the failure summary of a run that found no PNG
NoPngNotified ==
    /\ Len(notifications) = (IF NotificationConfigured THEN 1 ELSE 0)
    /\ \A i \in 1..Len(notifications) :
          /\ notifications[i].text[1] = <<FailureHeading>>
          /\ (<<"Error: ">> \o NoPngText) \in Range(notifications[i].text)

(***************************************************************************)
(* C1                                                                      *)
(***************************************************************************)
\* C1: at most one preauthenticated link is outstanding at any time, and when
\* main() has ended (returned or an exception escaped it) every link that
\* generate_presigned_url returned was passed to
\* revoke_preauthenticated_request exactly once.
C1_LinkRevokedExactlyOnce ==
    /\ Cardinality({p \in pars : ~p.revoked}) <= 1
    /\ Terminated => \A p \in pars : Cardinality(RevokeCalls(p.id)) = 1

(***************************************************************************)
(* C2                                                                      *)
(***************************************************************************)
\* C2: when a gated step has failed and main() has ended, the run went through
\* finish exactly once: it returned 1, the link (if one was issued) was passed
\* to revoke, and the summary was sent if the notification is configured.
C2_GatedFailureReachesFinish ==
    (Terminated /\ GatedStepFailed) =>
        /\ pc = "returned"
        /\ finish_calls = 1
        /\ result = 1
        /\ \A p \in pars : RevokeCalls(p.id) # {}
        /\ NotificationConfigured => Len(notifications) = 1

(***************************************************************************)
(* C3                                                                      *)
(***************************************************************************)
\* C3: when main() has ended it has returned 0 or 1; it returned 0 exactly
\* when every gated step succeeded, whatever the best-effort steps did.
C3_ResultCodeFollowsGatedSteps ==
    Terminated =>
        /\ result \in {0, 1}
        /\ result = 0 <=> AllGatedSucceeded

(***************************************************************************)
(* C4                                                                      *)
(***************************************************************************)
\* C4 as stated: when the listing yields zero PNG objects, no request at all
\* goes to the platform in that run (profile fetch included), main() returns 1
\* and the summary has the failure heading and the "No PNG files" error.
C4_NoPlatformCallAtAll ==
    ZeroListed =>
        /\ \A i \in 1..Len(calls) : calls[i].op \notin PlatformOps
        /\ Terminated => (pc = "returned" /\ result = 1 /\ NoPngNotified)

\* C4 as amended: when the listing yields zero PNG objects, the only platform
\* request of the run is the one profile fetch made before the listing; no
\* container is created, checked or published; main() returns 1 and the
\* summary (sent when the notification is configured) has the failure heading
\* and the "No PNG files" error.
C4_NoPostingCallWhenNoPng ==
    ZeroListed =>
        /\ \A i \in 1..Len(calls) : calls[i].op \notin PostingOps
        /\ CallsWith("get_profile_details") = {1}
        /\ \A i \in CallsWith("list_objects") : i > 1
        /\ Terminated => (pc = "returned" /\ result = 1 /\ NoPngNotified)

C4_Witness ==
    /\ ZeroListed
    /\ pc = "returned"
    /\ result = 1
    /\ Len(notifications) = 1
    /\ last_error = NoPngText

(***************************************************************************)
(* C5                                                                      *)
(***************************************************************************)
CaptionFailed == HasLog("Failed to generate caption via Claude")

\* C5: once caption generation has failed, the caption is the empty string,
\* the run goes on to create_media_container, which is called (once) with the
\* empty text, and the code main() returns is 0 exactly when container
\* creation and publishing both succeeded, 1 otherwise.
C5_CaptionFailureIsNotFatal ==
    CaptionFailed =>
        /\ caption = << >>
        /\ pc \in {"create", "status", "publish", "delete", "finish", "returned"}
        /\ \A i \in CallsWith("create_media_container") : calls[i].text = << >>
        /\ Cardinality(CallsWith("create_media_container")) =
               (IF pc = "create" /\ raised = NONE THEN 0 ELSE 1)
        /\ pc = "returned" =>
               /\ result \in {0, 1}
               /\ result = 0 <=> (container_id # NONE /\ thread_id # NONE)

C5_Witness ==
    /\ CaptionFailed
    /\ pc = "returned"
    /\ result = 0
    /\ \E i \in CallsWith("create_media_container") : calls[i].text = << >>

(***************************************************************************)
(* C6                                                                      *)
(***************************************************************************)
\* C6: no failure of the profile fetch ends the run: no exception escapes
\* main() at the profile fetch, and after a failed fetch the account label is
\* the raw account id.
C6_ProfileFailureIgnored ==
    /\ pc = "get_profile" => raised = NONE
    /\ HasLog("Failed to fetch Threads profile details") =>
           account_label = <<settings.threads_user_id>>

(***************************************************************************)
(* C7 (checked under SpecConfig)                                           *)
(***************************************************************************)
RequiredOrder ==
    <<"ANTHROPIC_API_KEY", "THREADS_BUCKET", "THREADS_ACCESS_TOKEN",
      "THREADS_USER_ID", "OCI_NAMESPACE">>

\* the numeric and boolean settings of the environment parse
WellFormed(e) ==
    /\ \A n \in {"THREADS_MEDIA_WAIT_SECONDS", "THREADS_PRESIGN_EXPIRATION_SECONDS",
                 "THREADS_CLAUDE_MAX_TOKENS"} : e[n] \in {NONE, "0", "30", "900", "120"}
    /\ e["THREADS_ENABLE_CAPTIONING"] \in {NONE, "TRUE ", "0"}

CaptioningEnabled(e) == e["THREADS_ENABLE_CAPTIONING"] \in {NONE, "TRUE "}

\* the required settings that are absent or empty
Missing(e) ==
    {n \in Range(RequiredOrder) :
        /\ e[n] \in {NONE, ""}
        /\ n = "ANTHROPIC_API_KEY" => CaptioningEnabled(e)}

\* the required settings loading rejects: the absent or empty ones, and a
\* model credential of white space only
Rejected(e) ==
    Missing(e) \cup
    (IF CaptioningEnabled(e) /\ e["ANTHROPIC_API_KEY"] = " "
     THEN {"ANTHROPIC_API_KEY"} ELSE {})

FirstRejected(e) ==
    RequiredOrder[CHOOSE i \in 1..Len(RequiredOrder) :
                     /\ RequiredOrder[i] \in Rejected(e)
                     /\ \A j \in 1..(i - 1) : RequiredOrder[j] \notin Rejected(e)]

\* main() took the configuration-failure path
ConfigFailed ==
    /\ pc = "returned"
    /\ settings = NoSettings
    /\ result = 1
    /\ Len(log) >= 1
    /\ log[1].event = "Configuration error"

EnvNotificationConfigured ==
    Truthy(env["TELEGRAM_BOT_TOKEN"]) /\ Truthy(env["TELEGRAM_CHAT_ID"])

\* C7 as stated: when a required setting is absent or empty, loading fails with
\* an error that names that setting, main() returns 1, and the run makes no
\* network call of any kind.
C7_MissingFieldNoNetworkCall ==
    (pc # "load_settings" /\ Missing(env) # {}) =>
        /\ ConfigFailed
        /\ \A n \in Missing(env) : Mentions(log[1].text, n)
        /\ calls = << >>
        /\ notifications = << >>

\* C7 as amended: when a required setting is absent or empty, loading fails and
\* main() returns 1 without any request to the platform, the store or the
\* model; the only network call is the failure notification, attempted exactly
\* once iff both notification credentials are set in the environment and
\* carrying the error; when the numeric and boolean settings parse, the error
\* names the first rejected required setting in the order model credential
\* (captioning enabled; rejected also when it is white space only), bucket,
\* access token, account id, namespace.
C7_MissingFieldFailsLoading ==
    (pc # "load_settings" /\ Missing(env) # {}) =>
        /\ ConfigFailed
        /\ calls = << >>
        /\ Len(notifications) = (IF EnvNotificationConfigured THEN 1 ELSE 0)
        /\ \A i \in 1..Len(notifications) :
              notifications[i].text = <<<<FailureHeading>>, <<"Error: ">> \o log[1].text>>
        /\ WellFormed(env) => Mentions(log[1].text, FirstRejected(env))

C7_Witness ==
    /\ ConfigFailed
    /\ WellFormed(env)
    /\ Cardinality(Missing(env)) >= 2
    /\ Mentions(log[1].text, FirstRejected(env))
    /\ FirstRejected(env) \in Missing(env)
    /\ Len(notifications) = 1

(***************************************************************************)
(* C8                                                                      *)
(***************************************************************************)
\* what C8 says of the summary, but for the error line
SummaryShape(m) ==
    /\ m[1] \in {<<SuccessHeading>>, <<FailureHeading>>}
    /\ m[1] = <<SuccessHeading>> <=> result = 0
    /\ m[2] = <<"Threads Account: ">> \o account_label
    /\ HasLine(m, "Object Key: ") <=> selected_object # NoObject
    /\ selected_object # NoObject => <<"Object Key: ", selected_object.key>> \in Range(m)
    /\ HasLine(m, "Thread ID: ") <=> thread_id # NONE
    /\ thread_id # NONE => <<"Thread ID: ", thread_id>> \in Range(m)

FinishedWithNotification ==
    pc = "returned" /\ finish_calls = 1 /\ NotificationConfigured

\* C8 as stated: a run that went through finish with the notification
\* configured sent exactly one summary, with the success heading iff the code
\* is 0, the account label, the object key iff an object was selected, the
\* post id iff publishing succeeded, and an error line iff a gated step failed.
C8_ErrorLineIffGatedFailure ==
    FinishedWithNotification =>
        /\ Len(notifications) = 1
        /\ SummaryShape(notifications[1].text)
        /\ HasLine(notifications[1].text, "Error: ") <=> GatedStepFailed

\* C8 as amended: the same, but the error line is present iff a gated step
\* failed with a non-empty error text.
C8_SummaryMatchesRun ==
    FinishedWithNotification =>
        /\ Len(notifications) = 1
        /\ SummaryShape(notifications[1].text)
        /\ HasLine(notifications[1].text, "Error: ") <=> GatedStepFailedWithText

C8_Witness ==
    /\ FinishedWithNotification
    /\ result = 0
    /\ Len(notifications) = 1
    /\ <<"Thread ID: ", thread_id>> \in Range(notifications[1].text)
    /\ <<"Object Key: ", selected_object.key>> \in Range(notifications[1].text)

(***************************************************************************)
(* C9                                                                      *)
(***************************************************************************)
Listed == objects # NotListed

\* the selection step has run
Chosen == Listed /\ pc \notin {"list_png", "choose"}

\* C9: choosing from an empty list fails with the storage error "No PNG
\* files ..." and selects nothing; choosing from a non-empty list yields a
\* member of that list; the step leaves the list as it was.
C9_ChoiceIsMember ==
    /\ [](Chosen /\ objects = << >> =>
            /\ selected_object = NoObject
            /\ last_error = NoPngText
            /\ \E i \in 1..Len(log) : /\ log[i].event = "OCI operation failed"
                                      /\ log[i].text = NoPngText)
    /\ [](Chosen /\ objects # << >> => selected_object \in Range(objects))
    /\ [][pc = "choose" => objects' = objects]_vars

C9_Witness ==
    /\ Chosen
    /\ Len(objects) = 2
    /\ selected_object = objects[2]
    /\ pc = "returned"

(***************************************************************************)
(* C10                                                                     *)
(***************************************************************************)
\* a response arrived and its body has no `id` field
RespondedWithoutId(r) ==
    /\ r # NoResponse
    /\ ~r.raised
    /\ ~(r.kind = "object" /\ r.id # NONE)

RespondedWithId(r, id) ==
    /\ ~r.raised
    /\ r.status_code < 400
    /\ r.kind = "object"
    /\ r.id = id

\* C10: a response without an `id` makes create_media_container (and
\* publish_container) fail with the publishing error, whatever its status:
\* main() takes the except branch, no other exception escapes; an id is
\* returned only for a status below 400 whose body carries that id.
C10_MissingIdIsPublishingError ==
    /\ RespondedWithoutId(create_response) =>
           /\ raised = NONE
           /\ container_id = NONE
           /\ HasLog("Failed to create media container")
    /\ container_id # NONE => RespondedWithId(create_response, container_id)
    /\ RespondedWithoutId(publish_response) =>
           /\ raised = NONE
           /\ thread_id = NONE
           /\ HasLog("Failed to publish container")
    /\ thread_id # NONE => RespondedWithId(publish_response, thread_id)

(***************************************************************************)
(* C11 (checked under SpecBool)                                            *)
(***************************************************************************)
EnableValue == env["THREADS_ENABLE_CAPTIONING"]

TruthyTokens == {"1", "true", "yes", "on"}

FalsyTokens == {"0", "false", "no", "off"}

\* the values that are a token once surrounding white space is removed and
\* capitals are lower-cased
ReadAsTrue == TruthyTokens \cup {"TRUE ", " yes ", "On"}

ReadAsFalse == FalsyTokens \cup {" off", "No"}

Loaded == pc # "load_settings" /\ settings # NoSettings

\* loading failed on the captioning-enabled variable
BoolRejected ==
    /\ ConfigFailed
    /\ Mentions(log[1].text, "Invalid boolean value for ")
    /\ Mentions(log[1].text, "THREADS_ENABLE_CAPTIONING")

\* C11 as stated: loading yields true for an unset variable and for the four
\* truthy tokens, false for the four falsy tokens, and fails for every other
\* string.
C11_OnlyExactTokensAccepted ==
    pc # "load_settings" =>
        /\ EnableValue \in {NONE} \cup TruthyTokens =>
               /\ ~BoolRejected
               /\ Loaded => settings.enable_captioning = TRUE
        /\ EnableValue \in FalsyTokens =>
               /\ ~BoolRejected
               /\ Loaded => settings.enable_captioning = FALSE
        /\ EnableValue \notin {NONE} \cup TruthyTokens \cup FalsyTokens =>
               ConfigFailed

\* C11 as amended: the value is compared after removing surrounding white
\* space and lower-casing.  Unset or read as a truthy token: never rejected,
\* and true in the settings loading produces; read as a falsy token: never
\* rejected, and false in the settings; every other string, the empty one
\* included: loading fails, and when the numeric settings parse it fails with
\* the invalid-boolean error naming the variable.
C11_TokensAcceptedAfterNormalising ==
    pc # "load_settings" =>
        /\ EnableValue \in {NONE} \cup ReadAsTrue =>
               /\ ~BoolRejected
               /\ Loaded => settings.enable_captioning = TRUE
        /\ EnableValue \in ReadAsFalse =>
               /\ ~BoolRejected
               /\ Loaded => settings.enable_captioning = FALSE
        /\ EnableValue \notin {NONE} \cup ReadAsTrue \cup ReadAsFalse =>
               /\ ConfigFailed
               /\ env["THREADS_MEDIA_WAIT_SECONDS"] = NONE => BoolRejected

C11_Witness ==
    /\ Loaded
    /\ EnableValue = " off"
    /\ settings.enable_captioning = FALSE
    /\ env["ANTHROPIC_API_KEY"] = NONE

(***************************************************************************)
(* C12                                                                     *)
(***************************************************************************)
DeleteCalls == CallsWith("delete_object")

\* publish_container was called and returned the post id the run holds
PublishReturnedId ==
    /\ thread_id # NONE
    /\ CallsWith("publish_container") # {}
    /\ RespondedWithId(publish_response, thread_id)

\* C12: delete_object is called at most once, with the key of the selected
\* object, and after a publish_container call that returned a post id; once a
\* gated step (storage set-up, listing, selection, link issuance, container
\* creation, publishing) has failed there is no delete_object call; and the
\* bucket only ever changes in the deletion step, by losing the selected
\* object's key.
C12_DeleteOnlyAfterPublish ==
    /\ [](Cardinality(DeleteCalls) <= 1)
    /\ [](\A i \in DeleteCalls :
            /\ selected_object # NoObject
            /\ calls[i].arg = selected_object.key
            /\ PublishReturnedId
            /\ \E j \in CallsWith("publish_container") : j < i)
    /\ [](GatedStepFailed => DeleteCalls = {})
    /\ [][bucket' # bucket =>
            /\ pc = "delete"
            /\ PublishReturnedId
            /\ bucket' = bucket \ {selected_object.key}
            /\ DeleteCalls = {}]_vars

C12_Witness ==
    /\ pc = "returned"
    /\ result = 0
    /\ Len(objects) = 2
    /\ selected_object = objects[2]
    /\ Cardinality(DeleteCalls) = 1
    /\ selected_object.key \notin bucket
    /\ objects[1].key \in bucket

(***************************************************************************)
(* C13                                                                     *)
(***************************************************************************)
CreateCalls == CallsWith("create_media_container")

PublishCalls == CallsWith("publish_container")

AllRevokeCalls == CallsWith("revoke_preauthenticated_request")

\* the step being taken makes a call to op
Calling(op) ==
    /\ Len(calls') = Len(calls) + 1
    /\ calls'[Len(calls')].op = op

\* a gated step failed through its except branch
GatedErrorLogged ==
    \E i \in 1..Len(log) : log[i].level = "error" /\ log[i].event \in GatedEvents

\* the publish call was made and came back, with an id or with an API error
PublishCompleted ==
    /\ PublishCalls # {}
    /\ raised = NONE
    /\ pc \notin {"publish"}

\* C13: create_media_container is called with the url of the issued link while
\* that link is outstanding (held by the run, not revoked, no revoke call
\* made yet); publish_container is called at most once, after the create call
\* and with the container id a successful create_media_container returned;
\* a status check that returns any status or fails with an API error leaves
\* the container id alone and is followed by the publish step; and a revoke
\* call is made only once the publish call has completed or a gated step has
\* failed, and after every create and publish call of the run.
C13_StepsInOrder ==
    /\ [][Calling("create_media_container") =>
            /\ par_request # NoRequest
            /\ calls'[Len(calls')].url = par_request.url
            /\ \E p \in pars : p.id = par_request.id /\ ~p.revoked
            /\ AllRevokeCalls = {}]_vars
    /\ [](Cardinality(PublishCalls) <= 1)
    /\ [](\A i \in PublishCalls :
            /\ container_id # NONE
            /\ calls[i].arg = container_id
            /\ RespondedWithId(create_response, container_id)
            /\ \E j \in CreateCalls : j < i)
    /\ [][pc = "status" /\ raised' = NONE =>
            /\ pc' = "publish"
            /\ container_id' = container_id]_vars
    /\ [](\A i \in AllRevokeCalls :
            /\ PublishCompleted \/ GatedErrorLogged
            /\ \A j \in CreateCalls \cup PublishCalls : j < i)

C13_Witness ==
    /\ pc = "returned"
    /\ result = 0
    /\ HasLog("Could not confirm container status")
    /\ Cardinality(CreateCalls) = 1
    /\ Cardinality(PublishCalls) = 1
    /\ Cardinality(AllRevokeCalls) = 1
    /\ \A p \in pars : p.revoked

====
